---- MODULE Spec2Model ----
(***************************************************************************)
(* A model of dayone-to-obsidian: Journal.process_journal, Entry.__str__,  *)
(* retrieve_metadata, Journal.convert_dayone_links, Journal.dump          *)
(* (utils.py) and the loop of convert (import.py).                         *)
(*                                                                         *)
(* Text is a sequence of tokens (a token stands for a piece of the string  *)
(* that the regular expressions of the program treat as a unit).  Paths    *)
(* are records, all relative to base_folder.  Time is counted in hours of  *)
(* a small calendar: HoursPerDay hours a day, DaysPerMonth days a month,   *)
(* MonthsPerYear months a year.                                            *)
(***************************************************************************)
EXTENDS Integers, Sequences, FiniteSets, TLC

VARIABLES
    pc,             \* where the run is: "idle" (between two files of the loop of
                    \* convert), "loop" (inside the for loop of process_journal),
                    \* "aborted" (an exception left the run), "linked"
    pass,           \* 1: first run; 2: process_journal invoked again on the same data
    nfiles,         \* number of journal files [!0-9]*.json in the input folder
    cfg,            \* the options of the run: merge_entries, yaml, force, and
                    \* metadata, the `metadata` section of the configuration file
    vault,          \* the vault directory: [set |-> is it configured, files |-> paths in it]
    config_metadata,\* config["metadata"]: the one mapping handed to every process_journal call
    data,           \* data[j]: the records of file j read so far (data["entries"])
    cursor,         \* number of records of the current file already iterated
    entries,        \* local `entries` of the running process_journal: stem -> Entry
    merged_entries, \* local `merged_entries`
    extra_tags,     \* local `extra_tags`
    journals,       \* journals[p]: the Journal objects built in pass p, in order
    attach_fs,      \* files under base_folder/{photos,pdfs,audios,videos}
    renames,        \* number of Path.rename calls on attachments, per pass
    warnings,       \* warn_msg calls about attachments: <<kind, md5>>
    skipped,        \* uuids of the records the skip-existing check left out, per pass
    file,           \* position of the loop of convert: files handed to process_journal
    out_dirs,       \* month directories made under the journal folders
    out_files,      \* entry files written under the journal folders
    out_text,       \* what was written to each of them: path -> text
    dumped          \* journals whose dump has renamed their JSON file

vars == <<pc, pass, nfiles, cfg, vault, config_metadata, data, cursor, entries,
          merged_entries, extra_tags, journals, attach_fs, renames, warnings, skipped,
          file, out_dirs, out_files, out_text, dumped>>

----------------------------------------------------------------------------
(* Bounds *)

MaxRecords == 3         \* records read in one run, over all files
MaxFiles == 2           \* journal files in the input folder
MaxAttachRecords == 2   \* records read in a run over records with attachments
HoursPerDay == 2
DaysPerMonth == 2
MonthsPerYear == 2

(* Program constants *)
AsciiA == 97            \* index = 97  # ASCII a

----------------------------------------------------------------------------
(* Calendar: datetime.astimezone and strftime *)

MonthLen == HoursPerDay * DaysPerMonth
YearLen == MonthLen * MonthsPerYear

\* creation_date.astimezone(pytz.timezone(entry["timeZone"])): the same instant,
\* read on the wall clock of a zone `tz` hours east of UTC
astimezone(instant, tz) == instant + tz

Year(t) == t \div YearLen
Month(t) == (t \div MonthLen) % MonthsPerYear
Day(t) == (t \div HoursPerDay) % DaysPerMonth

\* strftime("%Y"), strftime("%Y-%m"), strftime("%Y-%m-%d") of a wall-clock time
fmt_Y(t) == <<Year(t)>>
fmt_Ym(t) == <<Year(t), Month(t)>>
fmt_Ymd(t) == <<Year(t), Month(t), Day(t)>>

----------------------------------------------------------------------------
(* Paths, relative to base_folder *)

\* <journal_name>/<year>/<year-month>/<date><suffix>.md ; sfx = 0: no suffix,
\* otherwise the character code of the suffix
MdPath(journal, year, ym, date, sfx) ==
    [journal |-> journal, year |-> year, ym |-> ym, date |-> date, sfx |-> sfx]

NoPath == MdPath(0, <<>>, <<>>, <<>>, 0)

\* Path.stem of an .md path
Stem(path) == [date |-> path.date, sfx |-> path.sfx]

----------------------------------------------------------------------------
(* Text tokens *)

Tok(k, u, s, p) == [k |-> k, u |-> u, s |-> s, p |-> p]

NL == Tok("nl", 0, "", NoPath)                       \* "\n"
Body(u) == Tok("body", u, "", NoPath)                \* the prose of record u
Sep == Tok("sep", 0, "", NoPath)                     \* entries_sep
\* [<link_text>](dayone://view?entryId=<uuid>)
DayoneLink(link_text, uuid) == Tok("dayone_link", uuid, link_text, NoPath)
\* [[<file_path>|<link_text>]]
WikiLink(link_text, uuid, path) == Tok("wikilink", uuid, link_text, path)
\* ^[Linked entry with UUID `<uuid>` not found]
NotFound(uuid) == Tok("not_found", uuid, "", NoPath)
\* ![](dayone-moment://<id>)  (kind "photo"),
\* ![](dayone-moment:/<kind>/<id>) (kind "pdfAttachment", "audio", "video")
Moment(kind, id) == Tok("moment", id, kind, NoPath)
\* ![[<id>.<ext>]]
Embed(id, ext) == Tok("embed", id, ext, NoPath)
\* "<key>:: " of an inline metadata line, "<key>: " of a line of the YAML block
MetaKey(key, uuid) == Tok("meta", uuid, key, NoPath)
YamlKey(key, uuid) == Tok("yaml", uuid, key, NoPath)
YamlOpen == Tok("yaml_open", 0, "", NoPath)          \* "---\n"
YamlClose == Tok("yaml_close", 0, "", NoPath)        \* "\n---\n\n"

RECURSIVE Join(_, _)
\* sep.join(parts), parts a sequence of token sequences
Join(parts, sep) ==
    IF parts = <<>> THEN <<>>
    ELSE IF Len(parts) = 1 THEN parts[1]
    ELSE parts[1] \o <<sep>> \o Join(Tail(parts), sep)

----------------------------------------------------------------------------
(* Entry *)

\* metadata: `order` lists the keys in insertion order; the values the claims need
\* (dates, tags) are kept, the others are determined by the entry's uuid
NewEntry(uuid, has_yaml, metadata, text, output_file) ==
    [uuid |-> uuid, has_yaml |-> has_yaml, metadata |-> metadata,
     text |-> text, output_file |-> output_file]

DelKey(metadata, key) ==
    [metadata EXCEPT !.order = SelectSeq(metadata.order, LAMBDA k : k # key)]

AddKey(metadata, key) ==
    IF \E i \in 1..Len(metadata.order) : metadata.order[i] = key
    THEN metadata
    ELSE [metadata EXCEPT !.order = Append(metadata.order, key)]

HasKey(metadata, key) == \E i \in 1..Len(metadata.order) : metadata.order[i] = key

\* One line of the inline metadata, f"{key}:: {value}".  With has_yaml false the
\* value of "url" is the text [DayOne](dayone://view?entryId=<uuid>).
MetaLine(e, key) ==
    IF key = "url"
    THEN <<MetaKey(key, e.uuid), DayoneLink("DayOne", e.uuid)>>
    ELSE <<MetaKey(key, e.uuid)>>

YamlLine(e, key) == <<YamlKey(key, e.uuid)>>

\* Entry.__str__
EntryStr(e) ==
    IF e.has_yaml
    THEN <<YamlOpen>>
         \o Join([i \in 1..Len(e.metadata.order) |-> YamlLine(e, e.metadata.order[i])], NL)
         \o <<YamlClose>> \o e.text \o <<NL>>
    ELSE Join([i \in 1..Len(e.metadata.order) |-> MetaLine(e, e.metadata.order[i])]
              \o << <<>>, <<>> >>, NL)
         \o e.text \o <<NL>>

\* retrieve_metadata, for a record without location, weather and tags sub-records:
\* [raised |-> a KeyError left the function, metadata |-> the mapping]
retrieve_metadata(entry, local_date, extra_tags_arg, journal_name) ==
    IF ~entry.hasUuid \/ entry.starred = "missing"
    THEN [raised |-> TRUE,
          metadata |-> [order |-> <<>>, dates |-> 0, tags |-> <<>>]]
    ELSE [raised |-> FALSE,
          metadata |->
            [order |-> <<"uuid", "dates", "places", "tags">>,
             dates |-> local_date,
             tags |-> <<"#journal">>
                      \o (IF entry.starred = "true" THEN <<"#star">> ELSE <<>>)
                      \o (IF extra_tags_arg.isNone THEN <<>> ELSE extra_tags_arg.tags)]]

\* Entry.from_metadata: uuid is popped from the mapping, url is added
from_metadata(uuid, metadata, yaml) ==
    NewEntry(uuid, yaml, AddKey(DelKey(metadata, "uuid"), "url"), <<>>, NoPath)

\* new_entry.metadata.update(metadata_ext)
UpdateMetadata(metadata, metadata_ext) ==
    IF metadata_ext.isNone THEN metadata
    ELSE LET withAuthor == IF "author" \in metadata_ext.keys
                           THEN AddKey(metadata, "author") ELSE metadata
         IN IF "tags" \in metadata_ext.keys
            THEN [AddKey(withAuthor, "tags") EXCEPT !.tags = metadata_ext.tags]
            ELSE withAuthor

----------------------------------------------------------------------------
(* Text sanitizing and attachments *)

\* the str.replace calls and the code-block re.sub of lines 269-278: the escape
\* and zero-width characters and the empty code fences go, the separators
\* become newlines
SanitizeTok(t) ==
    IF t.k \in {"backslash", "u200b", "empty_fence"} THEN <<>>
    ELSE IF t.k = "u2028" THEN <<NL>>
    ELSE IF t.k = "u1C6A" THEN <<NL, NL>>
    ELSE <<t>>

RECURSIVE Sanitize(_)
Sanitize(text) ==
    IF text = <<>> THEN <<>> ELSE SanitizeTok(text[1]) \o Sanitize(Tail(text))

\* re.sub over the whole text: every reference of the kind, whatever its
\* identifier, becomes ![[<its identifier>.<ext>]]
SubMoments(text, kind, ext) ==
    [i \in 1..Len(text) |->
        IF text[i].k = "moment" /\ text[i].s = kind
        THEN Embed(text[i].u, ext) ELSE text[i]]

AttFile(dir, ns, n, ext) == [dir |-> dir, ns |-> ns, n |-> n, ext |-> ext]

NoType == "missing"

\* RenameAndSub with a copy in place of the rename: the hash-named file stays
RenameAndSub_Copies(acc, dir, kind, att, ext) ==
    LET original == AttFile(dir, "md5", att.md5, ext)
        renamed == AttFile(dir, "id", att.identifier, ext)
        found == original \in acc.fs
    IN [acc EXCEPT
          !.fs = IF found THEN acc.fs \cup {renamed} ELSE acc.fs,
          !.renames = IF found THEN acc.renames + 1 ELSE acc.renames,
          !.text = SubMoments(acc.text, kind, ext)]

\* if original.exists(): original.rename(renamed) ; then the re.sub
RenameAndSub(acc, dir, kind, att, ext) ==
    LET original == AttFile(dir, "md5", att.md5, ext)
        renamed == AttFile(dir, "id", att.identifier, ext)
        found == original \in acc.fs
    IN [acc EXCEPT
          !.fs = IF found THEN (acc.fs \ {original}) \cup {renamed} ELSE acc.fs,
          !.renames = IF found THEN acc.renames + 1 ELSE acc.renames,
          !.text = SubMoments(acc.text, kind, ext)]

RECURSIVE Photos(_, _)
\* lines 282-311
Photos(acc, photos) ==
    IF photos = <<>> THEN acc
    ELSE LET photo == photos[1]
         IN IF photo.type = NoType
            THEN Photos([acc EXCEPT !.warnings = acc.warnings \cup {<<"photo", photo.md5>>}],
                        Tail(photos))
            ELSE Photos(RenameAndSub(acc, "photos", "photo", photo, photo.type),
                        Tail(photos))

RECURSIVE Pdfs(_, _)
\* lines 313-331
Pdfs(acc, pdfs) ==
    IF pdfs = <<>> THEN acc
    ELSE Pdfs(RenameAndSub(acc, "pdfs", "pdfAttachment", pdfs[1], "pdf"), Tail(pdfs))

RECURSIVE Audios(_, _)
\* lines 333-357
Audios(acc, audios) ==
    IF audios = <<>> THEN acc
    ELSE Audios(RenameAndSub(acc, "audios", "audio", audios[1], "m4a"), Tail(audios))

RECURSIVE Videos(_, _)
\* lines 359-381: video["type"] of a record without the key raises KeyError
Videos(acc, videos) ==
    IF videos = <<>> THEN acc
    ELSE LET video == videos[1]
         IN IF video.type = NoType
            THEN [acc EXCEPT !.raised = TRUE]
            ELSE Videos(RenameAndSub(acc, "videos", "video", video, video.type),
                        Tail(videos))

\* lines 268-383: nothing of this runs for a record without text
SanitizeAndAttach(entry, fs) ==
    LET acc0 == [fs |-> fs, text |-> <<>>, renames |-> 0, warnings |-> {},
                 raised |-> FALSE]
    IN IF ~entry.hasText THEN acc0
       ELSE Videos(Audios(Pdfs(Photos([acc0 EXCEPT !.text = Sanitize(entry.text)],
                                      entry.photos),
                               entry.pdfAttachments),
                          entry.audios),
                   entry.videos)

----------------------------------------------------------------------------
(* Placement: lines 385-438 of process_journal *)

\* month_dir, as a path relative to base_folder: both components come from
\* creation_date
month_dir(journal_name, creation_date, local_date) ==
    [journal |-> journal_name, year |-> fmt_Y(creation_date),
     ym |-> fmt_Ym(creation_date)]

\* target_file_rel
target_file_rel(journal_name, creation_date, local_date) ==
    MdPath(journal_name, fmt_Y(creation_date), fmt_Ym(creation_date),
           fmt_Ymd(local_date), 0)

\* the test of lines 404-408
NotInVault(vault_directory, force, rel) ==
    \/ ~vault_directory.set
    \/ force
    \/ rel \notin vault_directory.files

\* NextFree without the while loop: always the first suffix
NextFree_NoLoop(es, date, index) == index

RECURSIVE NextFree(_, _, _)
\* the while loop of lines 422-428: the first index from `index` on whose stem
\* is not a key of entries
NextFree(es, date, index) ==
    IF [date |-> date, sfx |-> index] \in DOMAIN es
    THEN NextFree(es, date, index + 1)
    ELSE index

\* entries[key] = value, for a key that may be new
Put(es, key, value) ==
    [k \in DOMAIN es \cup {key} |-> IF k = key THEN value ELSE es[k]]

\* MergeInto without line 418 (del prev_entry.metadata["dates"])
MergeInto_KeepsDates(new_entry, prev_entry, entries_sep) ==
    [new_entry EXCEPT
        !.text = new_entry.text \o <<NL, NL, entries_sep, NL, NL>> \o EntryStr(prev_entry)]

\* lines 415-419: the previous entry is popped, loses "dates" and is rendered
\* behind the text of the new entry
MergeInto(new_entry, prev_entry, entries_sep) ==
    [new_entry EXCEPT
        !.text = new_entry.text \o <<NL, NL, entries_sep, NL, NL>>
                 \o EntryStr([prev_entry EXCEPT !.metadata = DelKey(@, "dates")])]

\* PlaceSuffixed without line 429 (new_entry.output_file = target_file)
PlaceSuffixed_KeepsBarePath(es, e0, dir, file_date_format) ==
    LET index == NextFree(es, file_date_format, AsciiA)
        suffixed == MdPath(dir.journal, dir.year, dir.ym, file_date_format, index)
    IN Put(es, Stem(suffixed), e0)

\* lines 421-429 and 432: the entry goes under the first free suffix
PlaceSuffixed(es, e0, dir, file_date_format) ==
    LET index == NextFree(es, file_date_format, AsciiA)
        suffixed == MdPath(dir.journal, dir.year, dir.ym, file_date_format, index)
    IN Put(es, Stem(suffixed), [e0 EXCEPT !.output_file = suffixed])

\* Place without line 416 (merged_entries += 1)
Place_MergeUncounted(es, merged, new_entry, journal_name, creation_date, local_date) ==
    LET dir == month_dir(journal_name, creation_date, local_date)
        file_date_format == fmt_Ymd(local_date)
        target_file == MdPath(dir.journal, dir.year, dir.ym, file_date_format, 0)
        rel == target_file_rel(journal_name, creation_date, local_date)
        e0 == [new_entry EXCEPT !.output_file = target_file]
    IN IF NotInVault(vault, cfg.force, rel)
       THEN IF Stem(target_file) \in DOMAIN es
            THEN IF cfg.merge_entries
                 THEN [entries |-> Put(es, Stem(target_file),
                                       MergeInto(e0, es[Stem(target_file)], Sep)),
                       merged_entries |-> merged, skipped |-> FALSE]
                 ELSE [entries |-> PlaceSuffixed(es, e0, dir, file_date_format),
                       merged_entries |-> merged, skipped |-> FALSE]
            ELSE [entries |-> Put(es, Stem(target_file), e0),
                  merged_entries |-> merged, skipped |-> FALSE]
       ELSE [entries |-> es, merged_entries |-> merged, skipped |-> TRUE]

\* lines 391-438: [entries, merged_entries, skipped]
Place(es, merged, new_entry, journal_name, creation_date, local_date) ==
    LET dir == month_dir(journal_name, creation_date, local_date)
        file_date_format == fmt_Ymd(local_date)
        target_file == MdPath(dir.journal, dir.year, dir.ym, file_date_format, 0)
        rel == target_file_rel(journal_name, creation_date, local_date)
        e0 == [new_entry EXCEPT !.output_file = target_file]
    IN IF NotInVault(vault, cfg.force, rel)
       THEN IF Stem(target_file) \in DOMAIN es
            THEN IF cfg.merge_entries
                 THEN [entries |-> Put(es, Stem(target_file),
                                       MergeInto(e0, es[Stem(target_file)], Sep)),
                       merged_entries |-> merged + 1, skipped |-> FALSE]
                 ELSE [entries |-> PlaceSuffixed(es, e0, dir, file_date_format),
                       merged_entries |-> merged, skipped |-> FALSE]
            ELSE [entries |-> Put(es, Stem(target_file), e0),
                  merged_entries |-> merged, skipped |-> FALSE]
       ELSE [entries |-> es, merged_entries |-> merged, skipped |-> TRUE]

----------------------------------------------------------------------------
(* Journal *)

NewJournal(name, es, merged, total) ==
    [name |-> name, entries |-> es, merge_entries |-> cfg.merge_entries,
     merged_entries |-> merged, total_base_entries |-> total]

\* Journal.uuid_to_file
uuid_to_file(journal) ==
    [u \in {journal.entries[k].uuid : k \in DOMAIN journal.entries} |->
        journal.entries[CHOOSE k \in DOMAIN journal.entries :
                            journal.entries[k].uuid = u].output_file]

EmptyMap == [x \in {} |-> x]

\* d1 | d2 of two dictionaries
DictUnion(d1, d2) ==
    [k \in DOMAIN d1 \cup DOMAIN d2 |-> IF k \in DOMAIN d2 THEN d2[k] ELSE d1[k]]

\* AllUuidsToFilenames without the loop of step 1: the index of the last
\* journal alone
AllUuidsToFilenames_LastOnly(js) ==
    IF js = <<>> THEN EmptyMap ELSE uuid_to_file(js[Len(js)])

RECURSIVE AllUuidsToFilenames(_)
\* step 1 of convert_dayone_links
AllUuidsToFilenames(js) ==
    IF js = <<>> THEN EmptyMap
    ELSE DictUnion(AllUuidsToFilenames(SubSeq(js, 1, Len(js) - 1)),
                   uuid_to_file(js[Len(js)]))

\* replace_link
replace_link(tok, uuids_to_filenames) ==
    IF tok.u \in DOMAIN uuids_to_filenames
    THEN WikiLink(tok.s, tok.u, uuids_to_filenames[tok.u])
    ELSE NotFound(tok.u)

\* the re.sub of step 2
ConvertText(text, uuids_to_filenames) ==
    [i \in 1..Len(text) |->
        IF text[i].k = "dayone_link"
        THEN replace_link(text[i], uuids_to_filenames) ELSE text[i]]

----------------------------------------------------------------------------
(* Inputs *)

RECURSIVE TotalRecords(_)
TotalRecords(d) == IF d = <<>> THEN 0 ELSE Len(d[1]) + TotalRecords(Tail(d))

\* creation instants at the end of a month, at the start of the next one and
\* at the start of a year, and zones west of, at and east of UTC
Instants == {MonthLen - 1, MonthLen, YearLen}
TimeZones == {-1, 0, 1}

\* a well-formed record with a body and no attachments
BaseRec(u, t, tz) ==
    [uuid |-> u, hasUuid |-> TRUE, starred |-> "false",
     creationDate |-> t, timeZone |-> tz,
     hasText |-> TRUE, text |-> <<Body(u)>>,
     photos |-> <<>>, pdfAttachments |-> <<>>, audios |-> <<>>, videos |-> <<>>]

NoTags == [isNone |-> TRUE, tags |-> <<>>]
NoMetadata == [isNone |-> TRUE, keys |-> {}, tags |-> <<>>]

----------------------------------------------------------------------------
(* The run *)

InitRun(nf, c, v, fs) ==
    /\ pc = "idle"
    /\ pass = 1
    /\ nfiles = nf
    /\ cfg = c
    /\ vault = v
    /\ config_metadata = c.metadata
    /\ data = <<>>
    /\ cursor = 0
    /\ entries = EmptyMap
    /\ merged_entries = 0
    /\ extra_tags = NoTags
    /\ journals = [p \in 1..2 |-> <<>>]
    /\ attach_fs = fs
    /\ renames = [p \in 1..2 |-> 0]
    /\ warnings = {}
    /\ skipped = [p \in 1..2 |-> {}]
    /\ file = 0
    /\ out_dirs = {}
    /\ out_files = {}
    /\ out_text = EmptyMap
    /\ dumped = {}

\* process_journal up to its for loop (lines 208-238), called by the loop of
\* convert for the next file of the folder
StartJournal ==
    /\ pc = "idle"
    /\ file < nfiles
    /\ pass = 2 => file < Len(data)
    /\ file' = file + 1
    /\ pc' = "loop"
    /\ out_dirs' = {d \in out_dirs : d.journal # file + 1}
    /\ out_files' = {f \in out_files : f.journal # file + 1}
    /\ out_text' = [f \in {g \in DOMAIN out_text : g.journal # file + 1} |-> out_text[f]]
    /\ entries' = EmptyMap
    /\ merged_entries' = 0
    /\ cursor' = 0
    /\ data' = IF pass = 1 THEN Append(data, <<>>) ELSE data
    /\ extra_tags' = IF ~config_metadata.isNone /\ "tags" \in config_metadata.keys
                     THEN [isNone |-> FALSE, tags |-> config_metadata.tags]
                     ELSE NoTags
    /\ config_metadata' = [config_metadata EXCEPT !.keys = @ \ {"tags"}]
    /\ UNCHANGED <<pass, nfiles, cfg, vault, journals, attach_fs, renames, warnings,
                   skipped, dumped>>

\* one iteration of the for loop (lines 241-440) on record rec
Iterate(rec) ==
    LET creation_date == rec.creationDate
        local_date == astimezone(creation_date, rec.timeZone)
        md == retrieve_metadata(rec, local_date, extra_tags, file)
        new_entry == [from_metadata(rec.uuid, md.metadata, cfg.yaml)
                        EXCEPT !.metadata = UpdateMetadata(@, config_metadata)]
        acc == SanitizeAndAttach(rec, attach_fs)
        dir == month_dir(file, creation_date, local_date)
        placed == Place(entries, merged_entries, [new_entry EXCEPT !.text = acc.text],
                        file, creation_date, local_date)
    IN IF md.raised
       THEN /\ pc' = "aborted"
            /\ UNCHANGED <<entries, merged_entries, attach_fs, renames, warnings,
                           skipped, out_dirs>>
       ELSE /\ attach_fs' = acc.fs
            /\ renames' = [renames EXCEPT ![pass] = @ + acc.renames]
            /\ warnings' = warnings \cup acc.warnings
            /\ IF acc.raised
               THEN /\ pc' = "aborted"
                    /\ UNCHANGED <<entries, merged_entries, skipped, out_dirs>>
               ELSE /\ pc' = "loop"
                    /\ out_dirs' = out_dirs \cup {dir}
                    /\ entries' = placed.entries
                    /\ merged_entries' = placed.merged_entries
                    /\ skipped' = IF placed.skipped
                                  THEN [skipped EXCEPT ![pass] = @ \cup {rec.uuid}]
                                  ELSE skipped

\* the for loop takes the next record of data["entries"]: in the first pass a
\* record of the domain, in the second pass the record read in the first
ProcessEntry(rec) ==
    /\ pc = "loop"
    /\ IF pass = 1
       THEN /\ TotalRecords(data) < MaxRecords
            /\ rec.uuid = TotalRecords(data) + 1
            /\ data' = [data EXCEPT ![file] = Append(@, rec)]
       ELSE /\ cursor < Len(data[file])
            /\ rec = data[file][cursor + 1]
            /\ data' = data
    /\ cursor' = cursor + 1
    /\ Iterate(rec)
    /\ UNCHANGED <<pass, nfiles, cfg, vault, config_metadata, extra_tags, journals,
                   file, out_files, out_text, dumped>>

\* the end of process_journal (lines 442-445)
FinishJournal ==
    /\ pc = "loop"
    /\ pass = 2 => cursor = Len(data[file])
    /\ journals' = [journals EXCEPT ![pass] =
                      Append(@, NewJournal(file, entries, merged_entries, cursor))]
    /\ pc' = "idle"
    /\ UNCHANGED <<pass, nfiles, cfg, vault, config_metadata, data, cursor, entries,
                   merged_entries, extra_tags, attach_fs, renames, warnings, skipped,
                   file, out_dirs, out_files, out_text, dumped>>

\* Journal.convert_dayone_links(journals), once every journal is built
ConvertLinks ==
    /\ pc = "idle"
    /\ file = nfiles
    /\ dumped = {}
    /\ LET uuids_to_filenames == AllUuidsToFilenames(journals[pass])
       IN journals' = [journals EXCEPT ![pass] =
            [j \in 1..Len(@) |->
                [@[j] EXCEPT !.entries =
                    [k \in DOMAIN @ |->
                        [@[k] EXCEPT !.text = ConvertText(@, uuids_to_filenames)]]]]]
    /\ pc' = "linked"
    /\ UNCHANGED <<pass, nfiles, cfg, vault, config_metadata, data, cursor, entries,
                   merged_entries, extra_tags, attach_fs, renames, warnings, skipped,
                   file, out_dirs, out_files, out_text, dumped>>

\* the entries of journal j that its dump has not written yet
Unwritten(j) ==
    {k \in DOMAIN journals[pass][j].entries :
        journals[pass][j].entries[k].output_file \notin out_files}

\* a dump has renamed the JSON file of j and has entries left to write
Dumping(j) == j \in dumped /\ Unwritten(j) # {}

\* Journal.dump of journal j, lines 455-456: the JSON file gets its numeric
\* prefix; the loop over the entries follows
DumpRename(j) ==
    /\ pc \in {"idle", "linked"}
    /\ file = nfiles
    /\ j \in 1..Len(journals[pass])
    /\ j \notin dumped
    /\ \A i \in dumped : ~Dumping(i)
    /\ dumped' = dumped \cup {j}
    /\ UNCHANGED <<pc, pass, nfiles, cfg, vault, config_metadata, data, cursor, entries,
                   merged_entries, extra_tags, journals, attach_fs, renames, warnings,
                   skipped, file, out_dirs, out_files, out_text>>

\* Entry.dump
EntryDump(entry) ==
    /\ out_files' = out_files \cup {entry.output_file}
    /\ out_text' = Put(out_text, entry.output_file, EntryStr(entry))

\* Journal.dump of journal j, lines 459-460: one iteration of the loop, on
\* entry k.  The order of the iterations is that of the dictionary, which the
\* model does not keep: the entries are written in any order.
DumpEntry(j, k) ==
    /\ pc \in {"idle", "linked"}
    /\ Dumping(j)
    /\ k \in Unwritten(j)
    /\ EntryDump(journals[pass][j].entries[k])
    /\ UNCHANGED <<pc, pass, nfiles, cfg, vault, config_metadata, data, cursor, entries,
                   merged_entries, extra_tags, journals, attach_fs, renames, warnings,
                   skipped, file, out_dirs, dumped>>

\* the user copies the exported tree into the vault directory (the program
\* performs no copy) and names it as --vault-directory from then on
CopyToVault ==
    /\ pc \in {"idle", "linked"}
    /\ pass = 1
    /\ file = nfiles
    /\ dumped = 1..nfiles
    /\ \A j \in dumped : ~Dumping(j)
    /\ vault' = [set |-> TRUE, files |-> vault.files \cup out_files]
    /\ pc' = "copied"
    /\ UNCHANGED <<pass, nfiles, cfg, config_metadata, data, cursor, entries,
                   merged_entries, extra_tags, journals, attach_fs, renames, warnings,
                   skipped, file, out_dirs, out_files, out_text, dumped>>

\* the same input is processed a second time
Rerun ==
    /\ pass = 1
    /\ \/ pc \in {"aborted", "copied"}
       \/ pc \in {"idle", "linked"} /\ file = nfiles
    /\ pass' = 2
    /\ pc' = "idle"
    /\ file' = 0
    /\ dumped' = {}
    /\ config_metadata' = cfg.metadata
    /\ UNCHANGED <<nfiles, cfg, vault, data, cursor, entries,
                   merged_entries, extra_tags, journals, attach_fs, renames, warnings,
                   skipped, out_dirs, out_files, out_text>>

----------------------------------------------------------------------------
(* Placement of the entries of one journal *)

Options(merge, yaml, force, metadata) ==
    [merge_entries |-> merge, yaml |-> yaml, force |-> force, metadata |-> metadata]

NoVault == [set |-> FALSE, files |-> {}]

\* a vault that already holds the file of the first day of the second month
SomeVault == [set |-> TRUE, files |-> {target_file_rel(1, MonthLen, MonthLen)}]

\* records with a body, at every instant and zone, and one record without text
PlaceRecords(u) ==
    {BaseRec(u, t, tz) : t \in Instants, tz \in TimeZones}
    \cup {[BaseRec(u, MonthLen, 0) EXCEPT !.hasText = FALSE, !.text = <<>>]}

\* the uuid of the next record read: uuids are unique over the run
NextUuid ==
    IF pass = 1 THEN TotalRecords(data) + 1
    ELSE IF pc = "loop" /\ cursor < Len(data[file]) THEN data[file][cursor + 1].uuid
    ELSE 0

Init ==
    \E merge \in BOOLEAN, yaml \in BOOLEAN, force \in BOOLEAN, v \in {NoVault, SomeVault} :
        /\ force => v.set
        /\ InitRun(1, Options(merge, yaml, force, NoMetadata), v, {})

Next ==
    \/ StartJournal
    \/ \E rec \in PlaceRecords(NextUuid) : ProcessEntry(rec)
    \/ FinishJournal

Spec == Init /\ [][Next]_vars

----------------------------------------------------------------------------
(* What the claims speak of *)

\* the local calendar date of a record: the stem of its file name
LocalDate(rec) == fmt_Ymd(astimezone(rec.creationDate, rec.timeZone))

\* the records of a list that fall on date d and were not left out by the
\* skip-existing check, in input order
PlacedOn(recs, sk, d) ==
    SelectSeq(recs, LAMBDA r : LocalDate(r) = d /\ r.uuid \notin sk)

Dates(recs) == {LocalDate(recs[i]) : i \in 1..Len(recs)}

Reverse(s) == [i \in 1..Len(s) |-> s[Len(s) + 1 - i]]

\* the records the running loop has iterated over
ReadSoFar == IF pc = "loop" THEN SubSeq(data[file], 1, cursor) ELSE <<>>

\* C1: no two entries of a journal have the same output_file
UniquePaths(es) ==
    \A k1 \in DOMAIN es : \A k2 \in DOMAIN es :
        k1 # k2 => es[k1].output_file # es[k2].output_file

\* C1: within one journal, after every placement step, in merge mode and in
\* suffix mode, with or without skip-existing, no two entries of the journal's
\* entry set have the same output_file path.
C1_UniqueOutputFiles ==
    /\ UniquePaths(entries)
    /\ \A p \in 1..2 : \A j \in 1..Len(journals[p]) : UniquePaths(journals[p][j].entries)

\* suffix mode, three entries of one date placed and a record left out by the
\* skip-existing check
C1_Witness ==
    /\ pc = "loop"
    /\ ~cfg.merge_entries
    /\ skipped[1] # {}
    /\ \E k1 \in DOMAIN entries : \E k2 \in DOMAIN entries :
            k1.date = k2.date /\ k1.sfx = 0 /\ k2.sfx = AsciiA

\* the i-th placed record of date d is under the bare stem (i = 1) or under
\* the (i-1)-th letter
SuffixOrder(es, recs, sk) ==
    \A d \in Dates(recs) :
        LET placed == PlacedOn(recs, sk, d)
        IN /\ \A i \in 1..Len(placed) :
                \E k \in DOMAIN es :
                    /\ es[k].uuid = placed[i].uuid
                    /\ k = Stem(es[k].output_file)
                    /\ k.date = d
                    /\ k.sfx = IF i = 1 THEN 0 ELSE AsciiA + i - 2
           /\ Cardinality({k \in DOMAIN es : k.date = d}) = Len(placed)

\* C2: with merge mode off, the records of one journal that share a local
\* calendar date get pairwise distinct file names in input order: the first
\* placed one the bare date, each later one the lowest letter not yet used.
C2_SuffixesFollowInputOrder ==
    ~cfg.merge_entries =>
        /\ SuffixOrder(entries, ReadSoFar, skipped[pass])
        /\ \A j \in 1..Len(journals[pass]) :
                SuffixOrder(journals[pass][j].entries, data[j], skipped[pass])

\* three records of one date placed: bare, 'a', 'b'
C2_Witness ==
    /\ ~cfg.merge_entries
    /\ \E k \in DOMAIN entries : k.sfx = AsciiA + 1

\* the bodies and separators of a text, in order
BodiesAndSeps(text) == SelectSeq(text, LAMBDA t : t.k \in {"body", "sep"})

\* the one entry of date d holds the placed records of d, latest first
MergedOrder(es, recs, sk) ==
    \A d \in Dates(recs) :
        LET placed == PlacedOn(recs, sk, d)
            keys == {k \in DOMAIN es : k.date = d}
            stem == [date |-> d, sfx |-> 0]
        IN IF placed = <<>> THEN keys = {}
           ELSE /\ keys = {stem}
                /\ es[stem].uuid = placed[Len(placed)].uuid
                /\ Stem(es[stem].output_file) = stem
                /\ BodiesAndSeps(es[stem].text) =
                     Join(Reverse([i \in 1..Len(placed) |->
                                     IF placed[i].hasText
                                     THEN <<Body(placed[i].uuid)>> ELSE <<>>]), Sep)
                /\ HasKey(es[stem].metadata, "dates")
                /\ \A i \in 1..Len(es[stem].text) :
                     ~(es[stem].text[i].k \in {"meta", "yaml"}
                       /\ es[stem].text[i].s = "dates")
                /\ \A i \in 1..(Len(placed) - 1) :
                     \E n \in 1..Len(es[stem].text) :
                        /\ es[stem].text[n].k \in {"meta", "yaml"}
                        /\ es[stem].text[n].s = "places"
                        /\ es[stem].text[n].u = placed[i].uuid

\* C3: with merge mode on, the records of one journal that share a local
\* calendar date leave exactly one entry for that date; its body holds the
\* bodies of all of them, latest first, consecutive ones separated by the
\* separator; "dates" is removed from every absorbed entry and kept on the
\* surviving one.
C3_MergeKeepsOneEntryPerDate ==
    cfg.merge_entries =>
        /\ MergedOrder(entries, ReadSoFar, skipped[pass])
        /\ \A j \in 1..Len(journals[pass]) :
                MergedOrder(journals[pass][j].entries, data[j], skipped[pass])

\* three records of one date merged into one entry
C3_Witness ==
    /\ cfg.merge_entries
    /\ merged_entries = 2
    /\ Cardinality(DOMAIN entries) = 1

----------------------------------------------------------------------------
(* Links between the entries of the journals of a run *)

\* the records another record may link to
LinkTargets == {1, 2}

\* records on two dates, with a body and, after it, at most one link
LinkRecords(u) ==
    {[BaseRec(u, t, 0) EXCEPT !.text = txt] :
        t \in {MonthLen, YearLen},
        txt \in {<<Body(u)>>} \cup {<<Body(u), DayoneLink("ref", v)>> : v \in LinkTargets}}

InitLinks ==
    \E merge \in BOOLEAN, yaml \in BOOLEAN, v \in {NoVault, SomeVault}, nf \in 1..MaxFiles :
        InitRun(nf, Options(merge, yaml, FALSE, NoMetadata), v, {})

NextLinks ==
    \/ StartJournal
    \/ \E rec \in LinkRecords(NextUuid) : ProcessEntry(rec)
    \/ FinishJournal
    \/ ConvertLinks

SpecLinks == InitLinks /\ [][NextLinks]_vars

\* every record read in the run
AllRecords == UNION {{data[j][i] : i \in 1..Len(data[j])} : j \in 1..Len(data)}

\* every entry of the journals of the pass
AllEntries(p) ==
    UNION {{journals[p][j].entries[k] : k \in DOMAIN journals[p][j].entries} :
              j \in 1..Len(journals[p])}

\* the entries whose text holds the body of record u
Holders(p, u) == {e \in AllEntries(p) : \E i \in 1..Len(e.text) : e.text[i] = Body(u)}

\* in the text that holds the body of A, what stands where A's reference to B stood
LinkResolved(p, A, B) ==
    \A e \in Holders(p, A.uuid) :
        \E i \in 1..(Len(e.text) - 1) :
            /\ e.text[i] = Body(A.uuid)
            /\ IF (\E r \in AllRecords : r.uuid = B) /\ B \notin skipped[p]
               THEN \E h \in Holders(p, B) : e.text[i + 1] = WikiLink("ref", B, h.output_file)
               ELSE e.text[i + 1] = NotFound(B)

\* C4: after convert_dayone_links, where A's body references B: if B was
\* processed and not skipped, the body holding A's text has a link to the path
\* of the file B was placed in; if B was skipped or never exported, it has the
\* "not found" marker naming B.
C4_LinksResolve ==
    pc = "linked" =>
        \A A \in AllRecords : \A B \in LinkTargets :
            (A.uuid \notin skipped[pass] /\ A.text = <<Body(A.uuid), DayoneLink("ref", B)>>)
                => LinkResolved(pass, A, B)

\* the same, for the runs in which no entry was absorbed by a merge
C4_LinksResolveWithoutMerge ==
    (\A j \in 1..Len(journals[pass]) : journals[pass][j].merged_entries = 0)
        => C4_LinksResolve

----------------------------------------------------------------------------
(* A second run against a vault that holds the output of the first *)

\* records around the end of a month, in UTC and in a zone east of it
RerunRecords(u) == {BaseRec(u, t, tz) : t \in {MonthLen - 1, MonthLen}, tz \in {0, 1}}

InitRerun ==
    \E merge \in BOOLEAN, force \in BOOLEAN, v \in {NoVault, SomeVault} :
        /\ force => v.set
        /\ InitRun(1, Options(merge, FALSE, force, NoMetadata), v, {})

NextRerun ==
    \/ StartJournal
    \/ \E rec \in RerunRecords(NextUuid) : ProcessEntry(rec)
    \/ FinishJournal
    \/ \E j \in 1..MaxFiles : DumpRename(j)
    \/ \E j \in dumped : \E k \in Unwritten(j) : DumpEntry(j, k)
    \/ CopyToVault
    \/ Rerun

SpecRerun == InitRerun /\ [][NextRerun]_vars

\* the second run works against a vault that holds every file of the first
SecondRunOverCopiedTree ==
    /\ pass = 2
    /\ ~cfg.force
    /\ vault.set
    /\ Len(journals[1]) = nfiles
    /\ \A e \in AllEntries(1) : e.output_file \in vault.files

\* C5: when the output tree of a first run is copied into the vault directory,
\* a second run on the same input with force off places no entry: every record
\* is skipped, in either merge mode.
C5_SecondRunPlacesNothing ==
    SecondRunOverCopiedTree =>
        /\ pc = "loop" => entries = EmptyMap
        /\ \A j \in 1..Len(journals[2]) : journals[2][j].entries = EmptyMap

\* the same, for inputs whose records all have their local date in the month
\* of their UTC creation instant
C5_SecondRunPlacesNothingWithinMonth ==
    (\A r \in AllRecords :
        fmt_Ym(r.creationDate) = fmt_Ym(astimezone(r.creationDate, r.timeZone)))
    => C5_SecondRunPlacesNothing

----------------------------------------------------------------------------
(* The loop of convert over the files of the folder *)

\* records with and without the uuid and starred fields
ConvertRecords(u) ==
    {[BaseRec(u, MonthLen, 0) EXCEPT !.hasUuid = h, !.starred = st] :
        h \in BOOLEAN, st \in {"true", "false", "missing"}}

\* the `metadata` section of the configuration file: absent, with an author
\* field, with an author field and extra tags
MetadataSections ==
    {NoMetadata,
     [isNone |-> FALSE, keys |-> {"author"}, tags |-> <<>>],
     [isNone |-> FALSE, keys |-> {"author", "tags"}, tags |-> <<"#extra">>]}

InitConvert ==
    \E merge \in BOOLEAN, cm \in MetadataSections, nf \in 1..MaxFiles :
        InitRun(nf, Options(merge, FALSE, FALSE, cm), NoVault, {})

NextConvert ==
    \/ StartJournal
    \/ \E rec \in ConvertRecords(NextUuid) : ProcessEntry(rec)
    \/ FinishJournal

SpecConvert == InitConvert /\ [][NextConvert]_vars

Malformed(rec) == ~rec.hasUuid \/ rec.starred = "missing"

\* C6: a record without uuid or starred makes the processing of its own file
\* fail, and the run still processes every other file of the folder: a failure
\* never leaves a file of the folder unprocessed.
C6_FailureStaysInItsFile ==
    /\ (pc = "loop" /\ cursor > 0) => ~Malformed(data[file][cursor])
    /\ pc = "aborted" => file = nfiles

\* s ends with the elements of t
EndsWith(s, t) ==
    /\ Len(t) <= Len(s)
    /\ SubSeq(s, Len(s) - Len(t) + 1, Len(s)) = t

HasExtraTags(e) == HasKey(e.metadata, "tags") /\ EndsWith(e.metadata.tags, cfg.metadata.tags)

\* C8: when the configuration supplies extra tags, every entry of every journal
\* of the run has them at the end of its tags, whatever the position of the
\* journal in the run.
C8_ExtraTagsOnEveryEntry ==
    (~cfg.metadata.isNone /\ "tags" \in cfg.metadata.keys) =>
        /\ pc = "loop" => \A k \in DOMAIN entries : HasExtraTags(entries[k])
        /\ \A e \in AllEntries(pass) : HasExtraTags(e)

\* the same, for the first journal of the run alone
C8_ExtraTagsInFirstJournal ==
    file <= 1 => C8_ExtraTagsOnEveryEntry

----------------------------------------------------------------------------
(* Attachments *)

Att(md5, identifier, type) == [md5 |-> md5, identifier |-> identifier, type |-> type]

\* the attachments of the records: two photos, two videos, an audio, a PDF;
\* hash names (md5) and identifiers are different name spaces
PhotoLists ==
    {<<>>, <<Att(1, 1, "jpeg"), Att(2, 2, "png")>>, <<Att(1, 1, NoType), Att(2, 2, "png")>>}
VideoLists ==
    {<<>>, <<Att(3, 3, NoType)>>, <<Att(3, 3, "mov"), Att(4, 4, "mp4")>>}

\* a body that references every attachment
AttachText(u) ==
    <<Body(u), Moment("photo", 1), Moment("photo", 2), Moment("video", 3),
      Moment("video", 4), Moment("audio", 5), Moment("pdfAttachment", 6)>>

AttachRecords(u) ==
    IF u > MaxAttachRecords THEN {}
    ELSE {[BaseRec(u, MonthLen, 0) EXCEPT
              !.text = AttachText(u), !.photos = ph, !.videos = vi,
              !.audios = IF more THEN <<Att(5, 5, "m4a")>> ELSE <<>>,
              !.pdfAttachments = IF more THEN <<Att(6, 6, "pdf")>> ELSE <<>>] :
            ph \in PhotoLists, vi \in VideoLists, more \in BOOLEAN}
         \cup {[BaseRec(u, MonthLen, 0) EXCEPT
                  !.hasText = FALSE, !.text = <<>>, !.photos = <<Att(1, 1, "jpeg")>>]}

\* the export: every attachment file under its hash name
ExportedFiles ==
    {AttFile("photos", "md5", 1, "jpeg"), AttFile("photos", "md5", 2, "png"),
     AttFile("videos", "md5", 3, "mov"), AttFile("videos", "md5", 4, "mp4"),
     AttFile("audios", "md5", 5, "m4a"), AttFile("pdfs", "md5", 6, "pdf")}

InitAttach ==
    \E fs \in {ExportedFiles, ExportedFiles \ {AttFile("photos", "md5", 2, "png")}} :
        InitRun(1, Options(FALSE, FALSE, FALSE, NoMetadata), NoVault, fs)

NextAttach ==
    \/ StartJournal
    \/ \E rec \in AttachRecords(NextUuid) : ProcessEntry(rec)
    \/ FinishJournal
    \/ Rerun

SpecAttach == InitAttach /\ [][NextAttach]_vars

\* the records whose iteration has ended without an exception, with the entry
\* set they were placed in: <<record, entries>>
Iterated ==
    (IF pc = "loop" THEN {<<ReadSoFar[i], entries>> : i \in 1..Len(ReadSoFar)} ELSE {})
    \cup UNION {{<<data[j][i], journals[pass][j].entries>> : i \in 1..Len(data[j])} :
                   j \in 1..Len(journals[pass])}

\* the attachment lists of a record, by kind of reference
AttachmentsOf(rec, kind) ==
    CASE kind = "photo" -> rec.photos
      [] kind = "video" -> rec.videos
      [] kind = "audio" -> rec.audios
      [] OTHER -> rec.pdfAttachments

\* every reference to an attachment of the record that has a type stands
\* rewritten with that type as its extension
RewrittenWithOwnType(rec, es) ==
    \A k \in DOMAIN es :
        es[k].uuid = rec.uuid =>
            \A i \in 1..Len(rec.text) :
                rec.text[i].k = "moment" =>
                    LET atts == AttachmentsOf(rec, rec.text[i].s)
                    IN \A n \in 1..Len(atts) :
                          (atts[n].identifier = rec.text[i].u /\ atts[n].type # NoType)
                              => es[k].text[i] = Embed(rec.text[i].u, atts[n].type)

\* C10: in the body of an entry with attachments, every reference to an
\* attachment is rewritten to an embed of its identifier with the extension of
\* that attachment: its own type for photos and videos, pdf for PDFs, m4a for
\* audios.
C10_ReferencesGetOwnExtension ==
    \A x \in Iterated : RewrittenWithOwnType(x[1], x[2])

SameTypes(atts) ==
    \A i \in 1..Len(atts) : \A j \in 1..Len(atts) :
        (atts[i].type # NoType /\ atts[j].type # NoType) => atts[i].type = atts[j].type

\* the same, for the records whose photos have one type and whose videos have
\* one type
C10_ReferencesGetOwnExtensionOneType ==
    \A x \in Iterated :
        (SameTypes(x[1].photos) /\ SameTypes(x[1].videos))
            => RewrittenWithOwnType(x[1], x[2])

TypelessWarned(rec, kind, atts) ==
    \A n \in 1..Len(atts) : atts[n].type = NoType => <<kind, atts[n].md5>> \in warnings

\* C7: a photo or video record without the type field is skipped with a
\* warning and the entry and the rest of the journal are processed: a missing
\* type field never ends the run.
C7_MissingTypeIsSkipped ==
    /\ pc # "aborted"
    /\ \A x \in Iterated :
          x[1].hasText => /\ TypelessWarned(x[1], "photo", x[1].photos)
                          /\ TypelessWarned(x[1], "video", x[1].videos)

\* the same, for photos alone
C7_MissingPhotoTypeIsSkipped ==
    /\ pc = "aborted" =>
          \E n \in 1..Len(data[file][cursor].videos) :
              data[file][cursor].videos[n].type = NoType
    /\ \A x \in Iterated : x[1].hasText => TypelessWarned(x[1], "photo", x[1].photos)

\* C9: an attachment file is renamed from its hash name to its identifier name
\* at most once: a second pass over the same records renames nothing and
\* leaves the files as they are, and the bodies it produces carry the same
\* references as those of the first pass.
C9_SecondPassRenamesNothing ==
    /\ [](pass = 2 => renames[2] = 0)
    /\ [][pass = 2 => attach_fs' = attach_fs]_vars
    /\ [](pass = 2 =>
            \A j \in 1..Len(journals[2]) :
                /\ j <= Len(journals[1])
                /\ DOMAIN journals[2][j].entries = DOMAIN journals[1][j].entries
                /\ \A k \in DOMAIN journals[2][j].entries :
                      journals[2][j].entries[k].text = journals[1][j].entries[k].text)

\* a second pass has ended over records whose files the first pass renamed and
\* whose bodies hold embeds
C9_Witness ==
    /\ pass = 2
    /\ renames[1] >= 2
    /\ Len(journals[2]) = 1
    /\ \E k \in DOMAIN journals[2][1].entries :
          \E i \in 1..Len(journals[2][1].entries[k].text) :
              journals[2][1].entries[k].text[i].k = "embed"

----------------------------------------------------------------------------
(* Writing the journals out: Journal.dump and Entry.dump *)

\* records on two dates, and one without text
DumpRecords(u) ==
    {BaseRec(u, t, 0) : t \in {MonthLen, YearLen}}
    \cup {[BaseRec(u, MonthLen, 0) EXCEPT !.hasText = FALSE, !.text = <<>>]}

InitDump ==
    \E merge \in BOOLEAN, yaml \in BOOLEAN, nf \in 1..MaxFiles :
        InitRun(nf, Options(merge, yaml, FALSE, NoMetadata), NoVault, {})

NextDump ==
    \/ StartJournal
    \/ \E rec \in DumpRecords(NextUuid) : ProcessEntry(rec)
    \/ FinishJournal
    \/ \E j \in 1..MaxFiles : DumpRename(j)
    \/ \E j \in dumped : \E k \in Unwritten(j) : DumpEntry(j, k)

SpecDump == InitDump /\ [][NextDump]_vars

\* the marker that names the identifier of an entry inside its text
UuidMarker(uuid) == Tok("uuid_marker", uuid, "", NoPath)

\* the entries of the pass whose file is written
WrittenEntries == {e \in AllEntries(pass) : e.output_file \in DOMAIN out_text}

\* C11: the text written for an entry ends with the marker that names the
\* identifier of the entry, followed by a newline, with the YAML block and
\* without it.
C11_TextEndsWithUuidMarker ==
    \A e \in WrittenEntries :
        EndsWith(out_text[e.output_file], <<UuidMarker(e.uuid), NL>>)

\* the same, for the trailing newline alone: the text written is the body of
\* the entry behind its metadata, followed by a newline
C11_TextEndsWithBodyAndNewline ==
    \A e \in WrittenEntries :
        /\ out_text[e.output_file] = EntryStr(e)
        /\ EndsWith(out_text[e.output_file], e.text \o <<NL>>)

\* C12: the JSON file of a journal is renamed only once every entry of the
\* journal is written: no journal has its file renamed while one of its
\* entries is unwritten.
C12_RenamedOnlyWhenAllWritten ==
    \A j \in dumped : Unwritten(j) = {}

\* the same read the other way round: no entry of a journal is written
\* before the JSON file of the journal is renamed
C12_WrittenOnlyWhenRenamed ==
    \A j \in 1..Len(journals[pass]) :
        j \notin dumped => Unwritten(j) = DOMAIN journals[pass][j].entries

----------------------------------------------------------------------------
(* What convert_dayone_links changes *)

\* a step of convert_dayone_links
LinkStep == pc # "linked" /\ pc' = "linked"

\* the paths of the entries of the pass that have identifier u
PathsOf(u) == {e.output_file : e \in {x \in AllEntries(pass) : x.uuid = u}}

\* what a token of a body is after the step, by the entries of all the
\* journals as they were before it
Relinked(tok) ==
    IF tok.k # "dayone_link" THEN {tok}
    ELSE IF PathsOf(tok.u) = {} THEN {NotFound(tok.u)}
    ELSE {WikiLink(tok.s, tok.u, f) : f \in PathsOf(tok.u)}

\* journal b is journal a with nothing but the texts of its entries changed
SameButText(a, b) ==
    /\ b.name = a.name
    /\ b.merge_entries = a.merge_entries
    /\ b.merged_entries = a.merged_entries
    /\ b.total_base_entries = a.total_base_entries
    /\ DOMAIN b.entries = DOMAIN a.entries
    /\ \A k \in DOMAIN a.entries :
          /\ b.entries[k].uuid = a.entries[k].uuid
          /\ b.entries[k].has_yaml = a.entries[k].has_yaml
          /\ b.entries[k].metadata = a.entries[k].metadata
          /\ b.entries[k].output_file = a.entries[k].output_file

\* C13: convert_dayone_links changes the texts of the entries and nothing
\* else: output_file, uuid and metadata of every entry, the entries of every
\* journal and the counters of the journals stay; and every link is resolved
\* against the index of all the journals given, as they stood before the
\* first text was rewritten.
C13_LinksChangeOnlyText ==
    [][LinkStep =>
        /\ Len(journals'[pass]) = Len(journals[pass])
        /\ journals'[3 - pass] = journals[3 - pass]
        /\ \A j \in 1..Len(journals[pass]) :
              /\ SameButText(journals[pass][j], journals'[pass][j])
              /\ \A k \in DOMAIN journals[pass][j].entries :
                    LET old == journals[pass][j].entries[k].text
                        new == journals'[pass][j].entries[k].text
                    IN /\ Len(new) = Len(old)
                       /\ \A i \in 1..Len(old) : {new[i]} = Relinked(old[i])
        /\ UNCHANGED <<entries, merged_entries, skipped, out_files, out_text, dumped,
                       out_dirs, attach_fs, data, vault>>]_vars

\* links are converted over two journals; an entry of the first journal
\* holds a link to an entry of the second one, and an entry of the second a
\* link to an entry of the first
C13_Witness ==
    /\ pc = "linked"
    /\ Len(journals[pass]) = 2
    /\ \E k \in DOMAIN journals[pass][1].entries :
          \E i \in 1..Len(journals[pass][1].entries[k].text) :
              LET t == journals[pass][1].entries[k].text[i]
              IN t.k = "wikilink" /\ t.p.journal = 2
    /\ \E k \in DOMAIN journals[pass][2].entries :
          \E i \in 1..Len(journals[pass][2].entries[k].text) :
              LET t == journals[pass][2].entries[k].text[i]
              IN t.k = "wikilink" /\ t.p.journal = 1

----------------------------------------------------------------------------
(* The counters of a journal, and the folders of the entries *)

\* the records of a list that the skip-existing check left out
SkippedOf(recs, sk) == Cardinality({i \in 1..Len(recs) : recs[i].uuid \in sk})

\* every record of the list is a surviving entry, a merged one or a skipped one
Accounted(es, merged, recs, sk) ==
    Cardinality(DOMAIN es) + merged + SkippedOf(recs, sk) = Len(recs)

\* C14: when process_journal has completed, the surviving entries, the merged
\* entries and the records left out by the skip-existing check add up to the
\* number of records of the file, and without merge mode no entry is counted
\* as merged; the same holds after every iteration of the loop for the
\* records read so far.
C14_EveryRecordAccounted ==
    /\ \A j \in 1..Len(journals[pass]) :
          LET journal == journals[pass][j]
          IN /\ journal.total_base_entries = Len(data[j])
             /\ Accounted(journal.entries, journal.merged_entries, data[j], skipped[pass])
             /\ ~journal.merge_entries => journal.merged_entries = 0
    /\ pc = "loop" =>
          /\ Accounted(entries, merged_entries, ReadSoFar, skipped[pass])
          /\ ~cfg.merge_entries => merged_entries = 0

\* a journal is built from three records: one left out by the skip-existing
\* check, one absorbed by a merge, one surviving
C14_Witness ==
    /\ Len(journals[pass]) = 1
    /\ journals[pass][1].total_base_entries = 3
    /\ journals[pass][1].merged_entries = 1
    /\ Cardinality(DOMAIN journals[pass][1].entries) = 1
    /\ SkippedOf(data[1], skipped[pass]) = 1

\* the folders of a path are the year and the month of the date of its name
FolderOfStem(path) ==
    /\ path.year = <<path.date[1]>>
    /\ path.ym = <<path.date[1], path.date[2]>>

\* the relative path the skip-existing check looks up for record rec of file j
RelOf(j, rec) ==
    target_file_rel(j, rec.creationDate, astimezone(rec.creationDate, rec.timeZone))

\* C15: the <year>/<year>-<month> folders of the output path of every placed
\* entry are the year and the month of the local date of its file name, at
\* every instant and in every zone; and so are those of the relative path of
\* the skip-existing check.
C15_FolderIsOfLocalDate ==
    /\ pc = "loop" => \A k \in DOMAIN entries : FolderOfStem(entries[k].output_file)
    /\ \A e \in AllEntries(pass) : FolderOfStem(e.output_file)
    /\ \A j \in 1..Len(data) : \A i \in 1..Len(data[j]) : FolderOfStem(RelOf(j, data[j][i]))

\* the same, for inputs whose records all have their local date in the month
\* of their UTC creation instant
C15_FolderIsOfLocalDateWithinMonth ==
    (\A r \in AllRecords :
        fmt_Ym(r.creationDate) = fmt_Ym(astimezone(r.creationDate, r.timeZone)))
    => C15_FolderIsOfLocalDate

====
